---- MODULE Spec2Model ----
(***************************************************************************)
(* Model of TextToShotsProcessor (text-to-shot/core.py): the story         *)
(* pipeline process_story, the model-call primitive _chat and the          *)
(* reference loader _load_references.                                      *)
(*                                                                         *)
(* Python strings are sequences of one-character strings, so that strip,   *)
(* lower, slicing and concatenation are computed and not assumed.          *)
(* Optional values are sequences of length 0 (None) or 1.                  *)
(***************************************************************************)
EXTENDS Integers, Sequences, FiniteSets, TLC

\* ------------------------------------------------------------------ bounds

\* Largest number of directory entries of the reference folder (SpecLoader).
MaxFiles == 3

\* ------------------------------------------------------- string primitives

\* Characters str.strip() removes (the ASCII ones that occur in the inputs).
Whitespace == {" ", "\t", "\n", "\r"}

RECURSIVE LStrip(_)
LStrip(s) == IF s # <<>> /\ Head(s) \in Whitespace THEN LStrip(Tail(s)) ELSE s

RECURSIVE RStrip(_)
RStrip(s) ==
    IF s # <<>> /\ s[Len(s)] \in Whitespace
    THEN RStrip(SubSeq(s, 1, Len(s) - 1))
    ELSE s

\* str.strip()
Strip(s) == RStrip(LStrip(s))

UpperAlpha ==
    <<"A","B","C","D","E","F","G","H","I","J","K","L","M",
      "N","O","P","Q","R","S","T","U","V","W","X","Y","Z">>

LowerAlpha ==
    <<"a","b","c","d","e","f","g","h","i","j","k","l","m",
      "n","o","p","q","r","s","t","u","v","w","x","y","z">>

LowerChar(c) ==
    IF \E i \in 1..Len(UpperAlpha) : UpperAlpha[i] = c
    THEN LowerAlpha[CHOOSE i \in 1..Len(UpperAlpha) : UpperAlpha[i] = c]
    ELSE c

\* str.lower()
Lower(s) == [i \in 1..Len(s) |-> LowerChar(s[i])]

\* s[:n]
Take(s, n) == SubSeq(s, 1, IF Len(s) < n THEN Len(s) ELSE n)

EndsWith(s, suffix) ==
    /\ Len(s) >= Len(suffix)
    /\ SubSeq(s, Len(s) - Len(suffix) + 1, Len(s)) = suffix

\* sep.join(parts)
RECURSIVE Join(_, _)
Join(parts, sep) ==
    IF parts = <<>> THEN <<>>
    ELSE IF Len(parts) = 1 THEN parts[1]
    ELSE parts[1] \o sep \o Join(Tail(parts), sep)

None == <<>>
Some(x) == <<x>>

\* ------------------------------------------------------- program constants

\* "No references provided."
NoReferences ==
    <<"N","o"," ","r","e","f","e","r","e","n","c","e","s"," ",
      "p","r","o","v","i","d","e","d",".">>

\* "--- Ref: "
RefHeaderOpen == <<"-","-","-"," ","R","e","f",":"," ">>
\* " ---\n"
RefHeaderClose == <<" ","-","-","-","\n">>
\* "..."
TruncationMarker == <<".",".",".">>
\* "\n\n"
BlockSeparator == <<"\n","\n">>
\* ".txt"
TxtSuffix == <<".","t","x","t">>
\* "english"
English == <<"e","n","g","l","i","s","h">>

\* content[:500]
TruncLen == 500

\* ------------------------------------------------------ reference loader

\* glob.glob(os.path.join(folder, "*.txt")): names that end in ".txt"; a
\* pattern that does not start with a dot never matches a hidden file.
GlobMatchesTxt(name) == EndsWith(name, TxtSuffix) /\ Head(name) # "."

\* Variant of RefBlock: the marker only where content was cut.
RefBlockMarksOnlyCuts(name, content) ==
    RefHeaderOpen \o name \o RefHeaderClose \o Take(content, TruncLen)
        \o (IF Len(content) > TruncLen THEN TruncationMarker ELSE <<>>)

\* f"--- Ref: {os.path.basename(path)} ---\n{content[:500]}..."
RefBlock(name, content) ==
    RefHeaderOpen \o name \o RefHeaderClose
        \o Take(content, TruncLen) \o TruncationMarker

\* Whether the loop body appends a block for the stripped content.
ContributesBlock(content) == content # <<>>

\* Variant of LoadLoop: the filename is recorded for every file that was
\* read, also when its content is empty.
RECURSIVE LoadLoopListsEveryRead(_, _)
LoadLoopListsEveryRead(doc_paths, acc) ==
    IF doc_paths = <<>> THEN acc
    ELSE
        LET path == Head(doc_paths)
            content == Strip(path.content)
        IN  IF ~path.readable THEN LoadLoopListsEveryRead(Tail(doc_paths), acc)
            ELSE LoadLoopListsEveryRead(Tail(doc_paths),
                    [reference_texts |->
                        IF ContributesBlock(content)
                        THEN Append(acc.reference_texts, RefBlock(path.name, content))
                        ELSE acc.reference_texts,
                     loaded_files |-> Append(acc.loaded_files, path.name)])

\* The for loop over doc_paths: acc holds reference_texts and loaded_files.
\* An entry that cannot be opened or read raises inside the try and is
\* skipped by the except clause.
RECURSIVE LoadLoop(_, _)
LoadLoop(doc_paths, acc) ==
    IF doc_paths = <<>> THEN acc
    ELSE
        LET path == Head(doc_paths)
            content == Strip(path.content)
        IN  IF path.readable /\ ContributesBlock(content)
            THEN LoadLoop(Tail(doc_paths),
                    [reference_texts |->
                        Append(acc.reference_texts, RefBlock(path.name, content)),
                     loaded_files |-> Append(acc.loaded_files, path.name)])
            ELSE LoadLoop(Tail(doc_paths), acc)

\* Variant of LoadReferences: no fallback to the sentinel when no file
\* contributed a block.
LoadReferencesNoFallback(dir) ==
    IF ~dir.exists
    THEN [combined |-> NoReferences, files |-> <<>>]
    ELSE
        LET doc_paths == SelectSeq(dir.entries, LAMBDA e : GlobMatchesTxt(e.name))
            acc == LoadLoop(doc_paths, [reference_texts |-> <<>>, loaded_files |-> <<>>])
        IN  [combined |-> Join(acc.reference_texts, BlockSeparator),
             files |-> acc.loaded_files]

\* _load_references(): the pair (combined_references, loaded_files).
LoadReferences(dir) ==
    IF ~dir.exists
    THEN [combined |-> NoReferences, files |-> <<>>]
    ELSE
        LET doc_paths == SelectSeq(dir.entries, LAMBDA e : GlobMatchesTxt(e.name))
            acc == LoadLoop(doc_paths, [reference_texts |-> <<>>, loaded_files |-> <<>>])
        IN  [combined |->
                IF acc.reference_texts # <<>>
                THEN Join(acc.reference_texts, BlockSeparator)
                ELSE NoReferences,
             files |-> acc.loaded_files]

\* ------------------------------------------------------- inputs (bounded)

Procs == {"p1", "p2"}

\* raw_story arguments: empty, whitespace-only, a Turkish and an English story.
Stories ==
    { <<>>,
      <<" ","\t","\n">>,
      <<" ","B","i","r"," ","g","u","n"," ","\n">>,
      <<"O","n","e"," ","d","a","y">> }

\* Raw responses of the language-detection call, before _chat strips them.
DetectResponses ==
    { <<"e","n","g","l","i","s","h">>,
      <<" ","E","n","g","l","i","s","h","\n">>,
      <<"E","N","G","L","I","S","H">>,
      <<"t","u","r","k","i","s","h">>,
      <<"T","u","r","k","i","s","h",".">> }

TranslateResponses == { <<"T",":"," ","O","n","e"," ","d","a","y"," ">> }

ScenesResponses == { <<"S","1"," ","/">>, <<"S","2"," ","/","\n">> }

ShotsResponses == { <<"1","."," ","W","i","d","e">> }

\* What the exception caught in _chat says.
Causes == {"timeout", "malformed"}

NameA == <<"a",".","t","x","t">>
NameB == <<"b",".","t","x","t">>
NameMd == <<"c",".","m","d">>
NameHidden == <<".","h",".","t","x","t">>

RefA == <<" ","r","e","f"," ","A","\n">>
RefB == <<"r","e","f"," ","B">>
Blank == <<"\t"," ","\n">>

File(name, content) == [name |-> name, content |-> content, readable |-> TRUE]
\* A path whose open() or read() raises (permissions, a directory, bad UTF-8).
Unreadable(name) == [name |-> name, content |-> <<>>, readable |-> FALSE]

Folder(entries) == [exists |-> TRUE, entries |-> entries]
NoFolder == [exists |-> FALSE, entries |-> <<>>]

\* Reference folders of the pipeline specification.
PipelineFolders ==
    { NoFolder,
      Folder(<<File(NameB, RefB), File(NameMd, RefA), File(NameA, RefA)>>),
      Folder(<<File(NameA, Blank), Unreadable(NameB)>>) }

\* n characters, first and last not whitespace.
LongText(n) == [i \in 1..n |-> IF i % 7 = 0 THEN " " ELSE "x"]

\* File contents of the loader specification: empty, blank, short, exactly
\* TruncLen long, and longer than TruncLen with surrounding whitespace.
LoaderContents ==
    { <<>>, Blank, RefA, LongText(TruncLen),
      <<" ">> \o LongText(TruncLen + 100) \o <<"\n">> }

LoaderNames == {NameA, NameB, NameMd, NameHidden}

LoaderEntries ==
    {File(n, c) : n \in LoaderNames, c \in LoaderContents}
        \cup {Unreadable(n) : n \in LoaderNames}

\* Enumerations of at most MaxFiles entries with distinct names, in any order.
LoaderFolders ==
    {NoFolder} \cup
    { Folder(es) : es \in
        { f \in UNION {[1..k -> LoaderEntries] : k \in 0..MaxFiles} :
            \A i, j \in DOMAIN f : i # j => f[i].name # f[j].name } }

\* ---------------------------------------------------- model-call primitive

\* What client.chat.completions.create does when _chat calls it: it returns
\* a response text or raises.
ChatOutcomes(responses) ==
    {[ok |-> TRUE, response |-> r, cause |-> ""] : r \in responses}
        \cup {[ok |-> FALSE, response |-> <<>>, cause |-> c] : c \in Causes}

\* _chat on success: response.choices[0].message.content.strip()
ChatResult(response) == Strip(response)

\* _chat on failure: RuntimeError(f"OpenAI API error: {str(e)}")
UpstreamError(cause) == [kind |-> "RuntimeError", cause |-> cause]

\* ValueError("Story text cannot be empty")
EmptyStoryError == [kind |-> "ValueError", cause |-> "Story text cannot be empty"]

\* One entry of an invocation's trace: a stage function called with its
\* arguments, and what the model call inside it did.
CallEvent(fn, text, references, o) ==
    [fn |-> fn, text |-> text, references |-> references,
     ok |-> o.ok, response |-> o.response, cause |-> o.cause]

\* The trace entry of a call of _load_references.
LoadEvent ==
    [fn |-> "_load_references", text |-> <<>>, references |-> None,
     ok |-> TRUE, response |-> <<>>, cause |-> ""]

\* ------------------------------------------------------------------ state

VARIABLES
    folder,               \* the reference folder on disk
    pc,                   \* where each process_story invocation stands
    raw_story,            \* argument raw_story
    use_references,       \* argument use_references
    combined_references,  \* local combined_references
    loaded_files,         \* local loaded_files
    detected_language,    \* local detected_language
    story_text,           \* local story_text
    translated_story,     \* local translated_story (None or a text)
    scenes_output,        \* local scenes_output
    shots_output,         \* local shots_output
    result,               \* the StoryAnalysisResult returned (None until then)
    error,                \* the exception raised (None if none)
    calls                 \* trace: loader and stage calls, in order

vars ==
    <<folder, pc, raw_story, use_references, combined_references, loaded_files,
      detected_language, story_text, translated_story, scenes_output,
      shots_output, result, error, calls>>

locals ==
    <<combined_references, loaded_files, detected_language, story_text,
      translated_story, scenes_output, shots_output>>

InitProcs ==
    /\ pc = [p \in Procs |-> "idle"]
    /\ raw_story = [p \in Procs |-> <<>>]
    /\ use_references = [p \in Procs |-> TRUE]
    /\ combined_references = [p \in Procs |-> <<>>]
    /\ loaded_files = [p \in Procs |-> <<>>]
    /\ detected_language = [p \in Procs |-> <<>>]
    /\ story_text = [p \in Procs |-> <<>>]
    /\ translated_story = [p \in Procs |-> None]
    /\ scenes_output = [p \in Procs |-> <<>>]
    /\ shots_output = [p \in Procs |-> <<>>]
    /\ result = [p \in Procs |-> None]
    /\ error = [p \in Procs |-> None]
    /\ calls = [p \in Procs |-> <<>>]

Init == folder \in PipelineFolders /\ InitProcs

\* ---------------------------------------------------------- process_story

\* Variant of IsEmptyStory: the test without the strip.
IsEmptyStoryUnstripped(s) == s = <<>>

\* if not raw_story.strip()
IsEmptyStory(s) == Strip(s) = <<>>

\* Variant of ReferenceStep: the loader runs whatever use_references says.
ReferenceStepAlwaysLoads(dir, use) ==
    [combined |-> LoadReferences(dir).combined,
     files |-> LoadReferences(dir).files,
     events |-> <<LoadEvent>>]

\* The reference step: the defaults, replaced by the loader's pair when
\* use_references is set.
ReferenceStep(dir, use) ==
    IF use
    THEN [combined |-> LoadReferences(dir).combined,
          files |-> LoadReferences(dir).files,
          events |-> <<LoadEvent>>]
    ELSE [combined |-> NoReferences, files |-> <<>>, events |-> <<>>]

\* Variant of NeedsTranslation: the comparison without lower().
NeedsTranslationCaseSensitive(label) == label # English

\* if detected_language.lower() != "english"
NeedsTranslation(label) == Lower(label) # English

\* Variant of DetectedLabel: the label lower-cased before it is returned.
DetectedLabelCanonical(response) == Lower(ChatResult(response))

\* The label _detect_language returns for a model response.
DetectedLabel(response) == ChatResult(response)

\* Variant of ScenesInput: the raw story, also after a translation.
ScenesInputRaw(p) == raw_story[p]

\* The first argument of _generate_scenes.
ScenesInput(p) == story_text[p]

\* Variant of ShotsInput: the scenes text kept in one slot that the
\* invocations share.
ShotsInputShared(p) ==
    scenes_output[CHOOSE q \in Procs : pc[q] \in {"shots", "returned"}]

\* The first argument of _generate_shots.
ShotsInput(p) == scenes_output[p]

\* The record process_story returns.
StoryAnalysisResult(p, shots) ==
    [original_story |-> raw_story[p],
     detected_language |-> detected_language[p],
     translated_story |-> translated_story[p],
     scenes |-> scenes_output[p],
     shots |-> shots,
     references_used |-> loaded_files[p]]

\* A call process_story(s, use): the empty-story check and the reference step,
\* up to the first model call.
Start(p, s, use) ==
    /\ pc[p] = "idle"
    /\ raw_story' = [raw_story EXCEPT ![p] = s]
    /\ use_references' = [use_references EXCEPT ![p] = use]
    /\ IF IsEmptyStory(s)
       THEN /\ error' = [error EXCEPT ![p] = Some(EmptyStoryError)]
            /\ pc' = [pc EXCEPT ![p] = "raised"]
            /\ UNCHANGED <<combined_references, loaded_files, calls>>
       ELSE LET refs == ReferenceStep(folder, use)
            IN  /\ combined_references' = [combined_references EXCEPT ![p] = refs.combined]
                /\ loaded_files' = [loaded_files EXCEPT ![p] = refs.files]
                /\ calls' = [calls EXCEPT ![p] = @ \o refs.events]
                /\ pc' = [pc EXCEPT ![p] = "detect"]
                /\ error' = error
    /\ UNCHANGED <<folder, detected_language, story_text, translated_story,
                   scenes_output, shots_output, result>>

\* Variant of Raise: the failure is swallowed and the stage runs again.
RaiseRetries(p, o) ==
    /\ error' = error
    /\ pc' = pc

\* The exception of a failed model call leaves process_story.
Raise(p, o) ==
    /\ error' = [error EXCEPT ![p] = Some(UpstreamError(o.cause))]
    /\ pc' = [pc EXCEPT ![p] = "raised"]

\* detected_language = self._detect_language(raw_story), then the defaults
\* of story_text and translated_story.
Detect(p, o) ==
    /\ pc[p] = "detect"
    /\ calls' = [calls EXCEPT ![p] =
                    Append(@, CallEvent("_detect_language", raw_story[p], None, o))]
    /\ IF o.ok
       THEN /\ detected_language' = [detected_language EXCEPT ![p] = DetectedLabel(o.response)]
            /\ story_text' = [story_text EXCEPT ![p] = raw_story[p]]
            /\ translated_story' = [translated_story EXCEPT ![p] = None]
            /\ pc' = [pc EXCEPT ![p] =
                        IF NeedsTranslation(DetectedLabel(o.response))
                        THEN "translate" ELSE "scenes"]
            /\ error' = error
       ELSE /\ Raise(p, o)
            /\ UNCHANGED <<detected_language, story_text, translated_story>>
    /\ UNCHANGED <<folder, raw_story, use_references, combined_references,
                   loaded_files, scenes_output, shots_output, result>>

\* translated_story = self._translate_to_english(raw_story); story_text = it
Translate(p, o) ==
    /\ pc[p] = "translate"
    /\ calls' = [calls EXCEPT ![p] =
                    Append(@, CallEvent("_translate_to_english", raw_story[p], None, o))]
    /\ IF o.ok
       THEN /\ translated_story' = [translated_story EXCEPT ![p] = Some(ChatResult(o.response))]
            /\ story_text' = [story_text EXCEPT ![p] = ChatResult(o.response)]
            /\ pc' = [pc EXCEPT ![p] = "scenes"]
            /\ error' = error
       ELSE /\ Raise(p, o)
            /\ UNCHANGED <<story_text, translated_story>>
    /\ UNCHANGED <<folder, raw_story, use_references, combined_references,
                   loaded_files, detected_language, scenes_output, shots_output,
                   result>>

\* scenes_output = self._generate_scenes(story_text, combined_references)
Scenes(p, o) ==
    /\ pc[p] = "scenes"
    /\ calls' = [calls EXCEPT ![p] =
                    Append(@, CallEvent("_generate_scenes", ScenesInput(p),
                                        Some(combined_references[p]), o))]
    /\ IF o.ok
       THEN /\ scenes_output' = [scenes_output EXCEPT ![p] = ChatResult(o.response)]
            /\ pc' = [pc EXCEPT ![p] = "shots"]
            /\ error' = error
       ELSE /\ Raise(p, o)
            /\ UNCHANGED scenes_output
    /\ UNCHANGED <<folder, raw_story, use_references, combined_references,
                   loaded_files, detected_language, story_text, translated_story,
                   shots_output, result>>

\* shots_output = self._generate_shots(scenes_output, combined_references),
\* then the return of the StoryAnalysisResult.
Shots(p, o) ==
    /\ pc[p] = "shots"
    /\ calls' = [calls EXCEPT ![p] =
                    Append(@, CallEvent("_generate_shots", ShotsInput(p),
                                        Some(combined_references[p]), o))]
    /\ IF o.ok
       THEN /\ shots_output' = [shots_output EXCEPT ![p] = ChatResult(o.response)]
            /\ result' = [result EXCEPT ![p] =
                            Some(StoryAnalysisResult(p, ChatResult(o.response)))]
            /\ pc' = [pc EXCEPT ![p] = "returned"]
            /\ error' = error
       ELSE /\ Raise(p, o)
            /\ UNCHANGED <<shots_output, result>>
    /\ UNCHANGED <<folder, raw_story, use_references, combined_references,
                   loaded_files, detected_language, story_text, translated_story,
                   scenes_output>>

Next ==
    \E p \in Procs :
        \/ \E s \in Stories, use \in BOOLEAN : Start(p, s, use)
        \/ \E o \in ChatOutcomes(DetectResponses) : Detect(p, o)
        \/ \E o \in ChatOutcomes(TranslateResponses) : Translate(p, o)
        \/ \E o \in ChatOutcomes(ScenesResponses) : Scenes(p, o)
        \/ \E o \in ChatOutcomes(ShotsResponses) : Shots(p, o)

\* Concurrent process_story invocations on one processor.
Spec == Init /\ [][Next]_vars

\* One process_story invocation up to its reference step, over every
\* reference folder of at most MaxFiles entries.
InitLoader == folder \in LoaderFolders /\ InitProcs

NextLoader == \E s \in Stories, use \in BOOLEAN : Start("p1", s, use)

SpecLoader == InitLoader /\ [][NextLoader]_vars

\* ------------------------------------------------------------- properties

\* The model calls of an invocation, in order (the trace without the loader).
ModelCalls(p) == SelectSeq(calls[p], LAMBDA e : e.fn # "_load_references")

Fns(t) == [i \in 1..Len(t) |-> t[i].fn]

\* The trace entries of stage fn.
CallsOf(p, fn) == SelectSeq(calls[p], LAMBDA e : e.fn = fn)

IsBlank(s) == \A i \in 1..Len(s) : s[i] \in Whitespace

Called(p) == pc[p] # "idle"

Returned(p) == result[p] # None

Turkish == <<"t","u","r","k","i","s","h">>

\* An entry of the folder that is a .txt file, readable, and not blank.
Contributing(e) == GlobMatchesTxt(e.name) /\ e.readable /\ ~IsBlank(e.content)

Min(a, b) == IF a < b THEN a ELSE b

\* The block the specification describes for a contributing entry: header,
\* at most TruncLen characters of the stripped content, marker.
ExpectedBlock(e) ==
    LET stripped == Strip(e.content)
    IN  RefHeaderOpen \o e.name \o RefHeaderClose
            \o SubSeq(stripped, 1, Min(Len(stripped), TruncLen))
            \o TruncationMarker

ExpectedBlocks(dir) ==
    LET kept == SelectSeq(dir.entries, Contributing)
    IN  [i \in 1..Len(kept) |-> ExpectedBlock(kept[i])]

ExpectedFiles(dir) ==
    LET kept == SelectSeq(dir.entries, Contributing)
    IN  [i \in 1..Len(kept) |-> kept[i].name]

\* The invocation went through the loader.
Loaded(p) == Called(p) /\ ~IsBlank(raw_story[p]) /\ use_references[p]

\* C1: a process_story call with an empty or whitespace-only raw_story, with
\* either value of use_references, raises the invalid-input error with no
\* model call and no loader call made, and returns no result.
C1_EmptyStoryRejected ==
    \A p \in Procs :
        (Called(p) /\ IsBlank(raw_story[p])) =>
            /\ pc[p] = "raised"
            /\ error[p] = Some(EmptyStoryError)
            /\ calls[p] = <<>>
            /\ result[p] = None

C1_Witness ==
    \E p, q \in Procs :
        /\ pc[p] = "raised" /\ raw_story[p] # <<>> /\ IsBlank(raw_story[p])
        /\ use_references[p] /\ folder.exists
        /\ pc[q] = "raised" /\ raw_story[q] = <<>> /\ ~use_references[q]

\* C2: when a model call of an invocation fails, process_story raises the
\* upstream-call error that wraps the cause, no result is returned, the
\* failing call is the last model call of the invocation, and no stage was
\* called twice.
C2_FirstFailureAborts ==
    \A p \in Procs :
        LET mc == ModelCalls(p)
        IN  (\E i \in 1..Len(mc) : ~mc[i].ok) =>
                /\ pc[p] = "raised"
                /\ error[p] = Some(UpstreamError(mc[Len(mc)].cause))
                /\ result[p] = None
                /\ \A i \in 1..(Len(mc) - 1) : mc[i].ok
                /\ \A i, j \in 1..Len(mc) : i # j => mc[i].fn # mc[j].fn

C2_Witness ==
    \E p, q \in Procs :
        /\ pc[p] = "raised" /\ Len(ModelCalls(p)) = 4 /\ ~ModelCalls(p)[4].ok
        /\ pc[q] = "raised" /\ Len(ModelCalls(q)) = 1 /\ ~ModelCalls(q)[1].ok

\* C3: in a returned result translated_story is present exactly when
\* detected_language, compared case-insensitively, is not "english"; and a
\* translate call is made only after a detected label that is not "english"
\* ignoring case, and always in that case before the result is returned.
C3_TranslatedIffNotEnglish ==
    \A p \in Procs :
        LET translated == CallsOf(p, "_translate_to_english") # <<>>
            detect == CallsOf(p, "_detect_language")
        IN  /\ translated =>
                /\ detect # <<>> /\ detect[1].ok
                /\ Lower(Strip(detect[1].response)) # English
            /\ Returned(p) =>
                LET r == result[p][1]
                    english == Lower(r.detected_language) = English
                IN  /\ (r.translated_story # None) <=> ~english
                    /\ translated <=> ~english

C3_Witness ==
    \E p, q \in Procs :
        /\ Returned(p) /\ result[p][1].detected_language = <<"E","N","G","L","I","S","H">>
        /\ result[p][1].translated_story = None
        /\ Returned(q) /\ result[q][1].detected_language = Turkish
        /\ result[q][1].translated_story # None

\* C4 (as claimed): in a returned result detected_language is a label of the
\* closed set, and is the canonical "english" whenever the model's label
\* equals "english" ignoring case.
C4_LabelCanonical ==
    \A p \in Procs :
        Returned(p) =>
            LET r == result[p][1]
                label == Strip(CallsOf(p, "_detect_language")[1].response)
            IN  /\ r.detected_language \in {English, Turkish}
                /\ Lower(label) = English => r.detected_language = English

\* C4 (amended): in a returned result detected_language is the response of
\* the detection call with its surrounding whitespace removed, as the model
\* wrote it.
C4_LabelVerbatim ==
    \A p \in Procs :
        Returned(p) =>
            result[p][1].detected_language
                = Strip(CallsOf(p, "_detect_language")[1].response)

C4_Witness ==
    \E p \in Procs :
        /\ Returned(p)
        /\ CallsOf(p, "_detect_language")[1].response = <<" ","E","n","g","l","i","s","h","\n">>
        /\ result[p][1].detected_language = <<"E","n","g","l","i","s","h">>

\* C5: an invocation with a non-empty story and use_references false never
\* calls the loader, gives the sentinel text as references to the scenes and
\* shots calls, and returns references_used empty.
C5_NoReferencesWhenDisabled ==
    \A p \in Procs :
        (Called(p) /\ ~IsBlank(raw_story[p]) /\ ~use_references[p]) =>
            /\ CallsOf(p, "_load_references") = <<>>
            /\ \A i \in 1..Len(calls[p]) :
                calls[p][i].fn \in {"_generate_scenes", "_generate_shots"}
                    => calls[p][i].references = Some(NoReferences)
            /\ Returned(p) => result[p][1].references_used = <<>>

C5_Witness ==
    \E p \in Procs :
        /\ Returned(p) /\ ~use_references[p]
        /\ ExpectedFiles(folder) # <<>>

\* C6: in a returned result the text given to the shots call is the scenes
\* text of that same result, under every interleaving of the invocations.
C6_ShotsFromOwnScenes ==
    \A p \in Procs :
        Returned(p) =>
            LET shots == CallsOf(p, "_generate_shots")
            IN  /\ Len(shots) = 1
                /\ shots[1].text = result[p][1].scenes

C6_Witness ==
    \E p, q \in Procs :
        /\ Returned(p) /\ Returned(q)
        /\ result[p][1].original_story # result[q][1].original_story
        /\ result[p][1].scenes # result[q][1].scenes

\* C7: a successful invocation calls, in this order and once each, the
\* loader (when use_references), detection, translation (only for a label
\* that is not english), scenes and shots: 3 model calls for english and 4
\* otherwise; detection and translation get the raw story, and scenes gets
\* the translation if there was one and the raw story otherwise.
C7_StageOrder ==
    \A p \in Procs :
        Returned(p) =>
            LET r == result[p][1]
                english == Lower(r.detected_language) = English
                t == ModelCalls(p)
            IN  /\ Fns(calls[p]) =
                        (IF use_references[p] THEN <<"_load_references">> ELSE <<>>)
                        \o <<"_detect_language">>
                        \o (IF english THEN <<>> ELSE <<"_translate_to_english">>)
                        \o <<"_generate_scenes", "_generate_shots">>
                /\ Len(t) = IF english THEN 3 ELSE 4
                /\ r.original_story = raw_story[p]
                /\ t[1].text = raw_story[p]
                /\ ~english => t[2].text = raw_story[p]
                /\ CallsOf(p, "_generate_scenes")[1].text =
                        IF english THEN raw_story[p] ELSE Strip(t[2].response)

C7_Witness ==
    \E p, q \in Procs :
        /\ Returned(p) /\ use_references[p] /\ Len(ModelCalls(p)) = 4
        /\ Returned(q) /\ Len(ModelCalls(q)) = 3

\* C8: the loader returns the sentinel text and no filename when the folder
\* does not exist and when no .txt file of it contributes a block; neither
\* case raises.
C8_SentinelWhenNothingLoaded ==
    \A p \in Procs :
        (Loaded(p) /\ (~folder.exists
                        \/ \A i \in 1..Len(folder.entries) :
                                ~Contributing(folder.entries[i]))) =>
            /\ combined_references[p] = NoReferences
            /\ loaded_files[p] = <<>>
            /\ error[p] = None

C8_Witness ==
    \E p \in Procs :
        /\ Loaded(p) /\ folder.exists
        /\ \E i, j \in 1..Len(folder.entries) :
            /\ GlobMatchesTxt(folder.entries[i].name) /\ ~folder.entries[i].readable
            /\ GlobMatchesTxt(folder.entries[j].name) /\ folder.entries[j].readable
            /\ folder.entries[j].content # <<>>
        /\ combined_references[p] = NoReferences

\* C9: the loader lists exactly the .txt files that are readable and not
\* blank, in enumeration order, and its text is one block per listed file in
\* that order: header, at most TruncLen characters of the stripped content,
\* and the marker in every block; other files add nothing and stop nothing.
C9_BlocksPerReadableFile ==
    \A p \in Procs :
        Loaded(p) =>
            /\ error[p] = None
            /\ loaded_files[p] = ExpectedFiles(folder)
            /\ ExpectedBlocks(folder) # <<>> =>
                combined_references[p] = Join(ExpectedBlocks(folder), BlockSeparator)

C9_Witness ==
    \E p \in Procs :
        /\ Loaded(p)
        /\ Len(folder.entries) = 3
        /\ GlobMatchesTxt(folder.entries[1].name) /\ ~folder.entries[1].readable
        /\ Len(Strip(folder.entries[2].content)) > TruncLen
        /\ folder.entries[3].name = NameHidden /\ folder.entries[3].content = RefA
        /\ loaded_files[p] = <<folder.entries[2].name>>
        /\ Len(combined_references[p]) =
                Len(RefHeaderOpen) + Len(folder.entries[2].name) + Len(RefHeaderClose)
                    + TruncLen + Len(TruncationMarker)

\* C10: in a successful invocation the scenes call and the shots call get
\* the same reference text; it is the sentinel exactly when references_used
\* is empty, and otherwise it is made of one block per entry of
\* references_used.
C10_ReferencesConsistent ==
    \A p \in Procs :
        Returned(p) =>
            LET r == result[p][1]
                scenes == CallsOf(p, "_generate_scenes")[1]
                shots == CallsOf(p, "_generate_shots")[1]
            IN  /\ scenes.references = shots.references
                /\ (scenes.references = Some(NoReferences)) <=> (r.references_used = <<>>)
                /\ r.references_used # <<>> =>
                    LET blocks == ExpectedBlocks(folder)
                    IN  /\ Len(blocks) = Len(r.references_used)
                        /\ scenes.references = Some(Join(blocks, BlockSeparator))

C10_Witness ==
    \E p, q \in Procs :
        /\ Returned(p) /\ Len(result[p][1].references_used) = 2
        /\ Returned(q) /\ result[q][1].references_used = <<>>
        /\ CallsOf(q, "_generate_shots")[1].references = Some(NoReferences)

====
